---- MODULE Spec2Model ----
(***************************************************************************)
(* Model of src/app.py, a Streamlit stock dashboard.  One run of the       *)
(* script (a "render") reads the widgets, gates the date range, fetches    *)
(* the price data through st.cache_data(ttl=3600), derives the return      *)
(* columns, and renders the chart, the metric cards and the styled table.  *)
(*                                                                         *)
(* Numbers.  Close prices are positive integers.  Every derived value is   *)
(* an exact rational <<n, d>> in lowest terms with d > 0; the float NaN is *)
(* <<0, 0>>.  Floating-point rounding is not modelled.  The standard       *)
(* deviation is kept as the deviations it is the root mean square of.      *)
(* The cache follows st.cache_data: keyed by the arguments, an entry is    *)
(* served while its age on the monotonic clock is below the ttl.           *)
(* Sequences are 1-based: index i of the source is index i + 1 here.       *)
(***************************************************************************)
EXTENDS Integers, Sequences, FiniteSets, TLC

\* ------------------------------------------------------------ bounds ----
MaxLen == 3
MaxNow == 7200
MaxDay == 1

\* ------------------------------------------------- program constants ----
TTL == 3600

\* ------------------------------------------------------ input sets ------
Prices == {90, 99, 100, 110, 120}
Steps == {3599, 3600}
Dates == {0, 1}
RawTickers == { <<"a", "a", "p", "l">>, <<" ", "A", "A", "P", "L", " ">> }
DefaultRaw == <<"A", "A", "P", "L">>

RECURSIVE SeqsUpTo(_)
SeqsUpTo(n) ==
  IF n = 0 THEN { <<>> }
  ELSE LET S == SeqsUpTo(n - 1)
       IN  S \cup { Append(s, p) : s \in { t \in S : Len(t) = n - 1 }, p \in Prices }

AllSeries == SeqsUpTo(MaxLen)
AdapterResults == { <<>>, <<100, 90>> }

\* -------------------------------------------------- float arithmetic ----
NaN == <<0, 0>>
IsNaN(x) == x[2] = 0
Abs(n) == IF n < 0 THEN -n ELSE n

RECURSIVE GCD(_, _)
GCD(a, b) == IF b = 0 THEN a ELSE GCD(b, a % b)

Norm(n, d) ==
  LET g == GCD(Abs(n), d) IN <<n \div g, d \div g>>

Rat(n) == <<n, 1>>
Add(x, y) ==
  IF IsNaN(x) \/ IsNaN(y) THEN NaN
  ELSE LET g == GCD(x[2], y[2])
       IN  Norm(x[1] * (y[2] \div g) + y[1] * (x[2] \div g), (x[2] \div g) * y[2])
Neg(x) == <<-x[1], x[2]>>
Sub(x, y) == IF IsNaN(x) \/ IsNaN(y) THEN NaN ELSE Add(x, Neg(y))
Mul(x, y) ==
  IF IsNaN(x) \/ IsNaN(y) THEN NaN
  ELSE LET g == GCD(Abs(x[1]), y[2])
           h == GCD(Abs(y[1]), x[2])
       IN  <<(x[1] \div g) * (y[1] \div h), (x[2] \div h) * (y[2] \div g)>>
Div(x, y) ==
  IF IsNaN(x) \/ IsNaN(y) \/ y[1] = 0 THEN NaN
  ELSE IF y[1] > 0 THEN Mul(x, <<y[2], y[1]>>)
  ELSE Mul(x, <<-y[2], -y[1]>>)
Less(x, y) == ~IsNaN(x) /\ ~IsNaN(y) /\ x[1] * y[2] < y[1] * x[2]

\* ------------------------------------------------------ str methods ----
Upper(c) ==
  CASE c = "a" -> "A"
    [] c = "p" -> "P"
    [] c = "l" -> "L"
    [] OTHER -> c

upper(str) == [i \in 1 .. Len(str) |-> Upper(str[i])]

RECURSIVE lstrip(_)
lstrip(str) ==
  IF str # <<>> /\ Head(str) = " " THEN lstrip(Tail(str)) ELSE str

RECURSIVE rstrip(_)
rstrip(str) ==
  IF str # <<>> /\ str[Len(str)] = " " THEN rstrip(SubSeq(str, 1, Len(str) - 1)) ELSE str

strip(str) == rstrip(lstrip(str))

\* --------------------------------------------------- pandas methods ----
\* Variant: the change is taken relative to the current row.
pct_change_OverCurrent(close) ==
  [i \in 1 .. Len(close) |->
     IF i = 1 THEN NaN
     ELSE Sub(Rat(1), Div(Rat(close[i - 1]), Rat(close[i])))]

\* Series.pct_change(): x[i] / x[i-1] - 1, NaN in the first row.
pct_change(close) ==
  [i \in 1 .. Len(close) |->
     IF i = 1 THEN NaN
     ELSE Sub(Div(Rat(close[i]), Rat(close[i - 1])), Rat(1))]

\* The product of the non-NaN entries of xs[1..i] (skipna).
RECURSIVE ProdValid(_, _)
ProdValid(xs, i) ==
  IF i = 0 THEN Rat(1)
  ELSE IF IsNaN(xs[i]) THEN ProdValid(xs, i - 1)
  ELSE Mul(ProdValid(xs, i - 1), xs[i])

\* Series.cumprod(): a NaN row stays NaN and is skipped by the later rows.
cumprod(xs) ==
  [i \in 1 .. Len(xs) |-> IF IsNaN(xs[i]) THEN NaN ELSE ProdValid(xs, i)]

\* Series.cummax() of the Close column.
RECURSIVE RunMax(_, _)
RunMax(close, i) ==
  IF i = 1 THEN close[1]
  ELSE LET m == RunMax(close, i - 1) IN IF close[i] > m THEN close[i] ELSE m

\* Variant: the maximum of the whole column in every row.
cummax_Global(close) == [i \in 1 .. Len(close) |-> RunMax(close, Len(close))]

cummax(close) == [i \in 1 .. Len(close) |-> RunMax(close, i)]

\* The non-NaN entries of xs, in order.
RECURSIVE Valid(_)
Valid(xs) ==
  IF xs = <<>> THEN <<>>
  ELSE IF IsNaN(Head(xs)) THEN Valid(Tail(xs))
  ELSE <<Head(xs)>> \o Valid(Tail(xs))

RECURSIVE Sum(_)
Sum(xs) == IF xs = <<>> THEN Rat(0) ELSE Add(Head(xs), Sum(Tail(xs)))

\* Variant: the mean of no valid entry is 0.
mean_ZeroWhenEmpty(xs) ==
  LET v == Valid(xs)
  IN  IF v = <<>> THEN Rat(0) ELSE Div(Sum(v), Rat(Len(v)))

\* Series.mean(): skipna; NaN when no entry is valid.
mean(xs) ==
  LET v == Valid(xs)
  IN  IF v = <<>> THEN NaN ELSE Div(Sum(v), Rat(Len(v)))

\* Series.std() (ddof = 1, skipna).  The result is irrational in general, so
\* it is kept as the deviations from the mean it is computed from: the value
\* is sqrt(sum of dev[i]^2 / (Len(dev) - 1)), and it is NaN with fewer than
\* two valid entries.
std(xs) ==
  LET v == Valid(xs)
      m == mean(xs)
  IN  IF Len(v) < 2 THEN [nan |-> TRUE, dev |-> <<>>]
      ELSE [nan |-> FALSE, dev |-> [i \in 1 .. Len(v) |-> Sub(v[i], m)]]

\* Series.min(): skipna; NaN when no entry is valid.
RECURSIVE MinOf(_)
MinOf(v) ==
  IF Len(v) = 1 THEN v[1]
  ELSE LET m == MinOf(Tail(v)) IN IF Less(Head(v), m) THEN Head(v) ELSE m

min(xs) ==
  LET v == Valid(xs) IN IF v = <<>> THEN NaN ELSE MinOf(v)

\* ---------------------------------------------------- get_stock_data ----
None == [kind |-> "None"]
Unbound == [kind |-> "unbound"]

\* Line 33.
DailyReturnColumn(close) == pct_change(close)

\* Variant: the growth factor is stored, without the "- 1".
CumulativeReturnColumn_NoMinusOne(daily) ==
  cumprod([i \in 1 .. Len(daily) |-> Add(Rat(1), daily[i])])

\* Line 34.
CumulativeReturnColumn(daily) ==
  LET grown == cumprod([i \in 1 .. Len(daily) |-> Add(Rat(1), daily[i])])
  IN  [i \in 1 .. Len(daily) |-> Sub(grown[i], Rat(1))]

\* Line 35.
MaxDrawdownColumn(close) ==
  LET peak == cummax(close)
  IN  [i \in 1 .. Len(close) |-> Sub(Div(Rat(close[i]), Rat(peak[i])), Rat(1))]

\* The body of get_stock_data, given what yf.download returned.
get_stock_data(data) ==
  IF data = <<>> THEN None
  ELSE [kind |-> "DataFrame",
        Close |-> data,
        DailyReturn |-> DailyReturnColumn(data),
        CumulativeReturn |-> CumulativeReturnColumn(DailyReturnColumn(data)),
        MaxDrawdown |-> MaxDrawdownColumn(data)]

\* ------------------------------------------------------------ state ----
VARIABLES
  feed,        \* what yf.download returns when it is called now
  now,         \* the monotonic clock st.cache_data reads, in seconds
  today,       \* date.today(), as a day number
  cache,       \* st.cache_data store: (ticker, start, end) -> [value, ts]
  ticker,      \* line 14
  start_date,  \* line 18
  end_date,    \* line 20
  downloads,   \* what yf.download returned in this run, one entry per call
  df,          \* line 39
  cards,       \* lines 70-73: <<total_return, avg_daily_return, volatility, max_drawdown>>
  table,       \* lines 84-96: the styled rows of display_df
  page         \* the elements rendered by this run, in order

vars == <<feed, now, today, cache, ticker, start_date, end_date, downloads, df, cards, table, page>>

\* ------------------------------------------------------ page elements ----
Header == <<"title", "caption", "ticker_input", "start_input", "end_input">>
RangeErrorPage == Header \o <<"error: Please enter a valid date range.">>
\* Variant: the run goes on after the no-data error.
NoDataPage_Continues ==
  Header \o <<"spinner", "error: No data found. Try a different ticker.", "chart", "metrics">>

\* The run stops after the error (st.stop()).
NoDataPage == Header \o <<"spinner", "error: No data found. Try a different ticker.">>
FullPage == Header \o <<"spinner", "chart", "metrics", "dataframe", "expander">>

\* Variant: the end date is not compared with today.
InvalidRange_NoEndCheck(start, end, day) == start > end \/ start > day

\* Variant: a one-day range is rejected.
InvalidRange_NonStrict(start, end, day) == start >= end \/ start > day \/ end > day

\* ---------------------------------------------------------- line 23 ----
InvalidRange(start, end, day) == start > end \/ start > day \/ end > day

\* ---------------------------------------------- st.cache_data(ttl) ----
Key(tk, start, end) == <<tk, start, end>>

\* Variant: a stored None is never served.
CacheHit_SkipsNone(c, key, t) ==
  key \in DOMAIN c /\ c[key].value # [kind |-> "None"] /\ t - c[key].ts < TTL

\* Variant: an entry is still served at age = ttl.
CacheHit_Inclusive(c, key, t) == key \in DOMAIN c /\ t - c[key].ts <= TTL

\* An entry is served while its age is below the ttl.
CacheHit(c, key, t) == key \in DOMAIN c /\ t - c[key].ts < TTL

CacheStore(c, key, value, t) ==
  [k \in DOMAIN c \cup {key} |-> IF k = key THEN [value |-> value, ts |-> t] ELSE c[k]]

\* ------------------------------------------------------ lines 70-96 ----
total_return(frame) == frame.CumulativeReturn[Len(frame.CumulativeReturn)]
avg_daily_return(frame) == mean(frame.DailyReturn)
volatility(frame) == std(frame.DailyReturn)
max_drawdown(frame) == min(frame.MaxDrawdown)

MetricCards(frame) ==
  <<total_return(frame), avg_daily_return(frame), volatility(frame), max_drawdown(frame)>>

\* Variant: 0 is green.
highlight_returns_NonNegative(val) ==
  IF IsNaN(val) THEN ""
  ELSE IF Less(val, Rat(0)) THEN "color: red" ELSE "color: green"

highlight_returns(val) ==
  IF IsNaN(val) THEN ""
  ELSE IF Less(Rat(0), val) THEN "color: green" ELSE "color: red"

StyledTable(frame) ==
  [i \in 1 .. Len(frame.Close) |->
     [Close |-> frame.Close[i],
      DailyReturn |-> frame.DailyReturn[i],
      style |-> highlight_returns(frame.DailyReturn[i])]]

\* ------------------------------------------------------------- Init ----
Start ==
  /\ now = 0
  /\ today = 0
  /\ cache = <<>>
  /\ ticker = strip(upper(DefaultRaw))
  /\ start_date = today - 365
  /\ end_date = today
  /\ downloads = <<>>
  /\ df = Unbound
  /\ cards = <<>>
  /\ table = <<>>
  /\ page = <<>>

Init == feed \in AdapterResults /\ Start

\* ---------------------------------------------------------- actions ----
\* One run of the script: raw, start and end are the widget values, data is
\* what yf.download returns if this run calls it.
Run(raw, start, end, data) ==
  \E tk \in {strip(upper(raw))} :
    /\ ticker' = tk
    /\ start_date' = start
    /\ end_date' = end
    /\ UNCHANGED <<feed, now, today>>
    /\ IF InvalidRange(start, end, today)
       THEN /\ page' = RangeErrorPage
            /\ downloads' = <<>>
            /\ df' = Unbound
            /\ cards' = <<>>
            /\ table' = <<>>
            /\ UNCHANGED cache
       ELSE \E hit \in {CacheHit(cache, Key(tk, start, end), now)} :
            \E result \in {IF hit THEN cache[Key(tk, start, end)].value
                                  ELSE get_stock_data(data)} :
              /\ downloads' = IF hit THEN <<>> ELSE <<data>>
              /\ cache' = IF hit THEN cache
                                 ELSE CacheStore(cache, Key(tk, start, end), result, now)
              /\ df' = result
              /\ IF result = None
                 THEN /\ page' = NoDataPage
                      /\ cards' = <<>>
                      /\ table' = <<>>
                 ELSE /\ page' = FullPage
                      /\ cards' = MetricCards(result)
                      /\ table' = StyledTable(result)

Render == \E raw \in RawTickers, start \in Dates, end \in Dates :
            Run(raw, start, end, feed)

\* The provider's data changes.
Publish == \E data \in AdapterResults :
             /\ data # feed
             /\ feed' = data
             /\ UNCHANGED <<now, today, cache, ticker, start_date, end_date, downloads, df, cards, table, page>>

Tick == \E d \in Steps :
          /\ now + d <= MaxNow
          /\ now' = now + d
          /\ UNCHANGED <<feed, today, cache, ticker, start_date, end_date, downloads, df, cards, table, page>>

NewDay ==
  /\ today < MaxDay
  /\ today' = today + 1
  /\ UNCHANGED <<feed, now, cache, ticker, start_date, end_date, downloads, df, cards, table, page>>

Next == Render \/ Publish \/ Tick \/ NewDay

Spec == Init /\ [][Next]_vars

\* The same script with the widgets left at one value, for every price
\* series of up to MaxLen rows the provider can hold.
InitSeries == feed \in AllSeries /\ Start

RenderSeries == Run(DefaultRaw, today, today, feed)

Expire ==
  /\ now + TTL <= MaxNow
  /\ now' = now + TTL
  /\ UNCHANGED <<feed, today, cache, ticker, start_date, end_date, downloads, df, cards, table, page>>

NextSeries == RenderSeries \/ Expire

SpecSeries == InitSeries /\ [][NextSeries]_vars

\* =================================================== properties ========
\* A step that leaves the provider and both clocks alone and changes the
\* state is one run of the script.
RunStep == feed' = feed /\ now' = now /\ today' = today

RunKey == <<ticker', start_date', end_date'>>
RunInvalid == start_date' > end_date' \/ start_date' > today \/ end_date' > today
EntryFresh(k) == k \in DOMAIN cache /\ now - cache[k].ts < TTL
Elements(p) == { p[i] : i \in DOMAIN p }

\* C1: a cached fetch made while an entry for its key exists with age < TTL
\* returns the value stored when the entry was created, Empty (None)
\* included, and does not call the data provider; such an entry is changed
\* by no step, so one TTL window sees at most one provider call per key.
C1_HitServesStored ==
  [][ /\ (RunStep /\ ~RunInvalid /\ EntryFresh(RunKey))
           => (df' = cache[RunKey].value /\ downloads' = <<>>)
      /\ \A k \in DOMAIN cache :
           EntryFresh(k) => (k \in DOMAIN cache' /\ cache'[k] = cache[k]) ]_vars

\* A run was served the stored Empty result although the provider has data
\* by now.
C1_Witness ==
  /\ page = NoDataPage
  /\ df = None
  /\ downloads = <<>>
  /\ feed # <<>>
  /\ cache[<<ticker, start_date, end_date>>].ts < now

\* C2: a run whose range has start > end, start > today or end > today
\* halts at the range error: the provider is not called, the cache is left
\* as it was, and nothing after the gate is rendered.
C2_GateBeforeFetch ==
  [][ (RunStep /\ RunInvalid)
        => /\ downloads' = <<>>
           /\ cache' = cache
           /\ df' = Unbound
           /\ cards' = <<>>
           /\ table' = <<>>
           /\ page' = Header \o <<"error: Please enter a valid date range.">> ]_vars

\* A run halted at the gate while the cache held entries.
C2_Witness ==
  /\ page = RangeErrorPage
  /\ end_date > today
  /\ start_date <= end_date
  /\ cache # <<>>
  /\ downloads = <<>>

\* C3: the range is rejected exactly when start > end or start > today or
\* end > today; start = end = today is accepted.
C3_ValidateExact ==
  [][ RunStep =>
        /\ ("error: Please enter a valid date range." \in Elements(page')) <=> RunInvalid
        /\ (start_date' = today /\ end_date' = today)
             => "error: Please enter a valid date range." \notin Elements(page') ]_vars

\* A run with start = end = today went past the gate.
C3_Witness ==
  /\ start_date = today
  /\ end_date = today
  /\ today = 1
  /\ "spinner" \in Elements(page)

\* C4: a cached fetch is a miss when the key has no entry or the entry's age
\* is >= TTL = 3600 (age = TTL included); a miss calls the provider exactly
\* once, stores the result, Empty included, with timestamp now in place of
\* any stale entry, and returns that result.
C4_MissFetchesAndStores ==
  [][ (RunStep /\ ~RunInvalid /\ (RunKey \notin DOMAIN cache \/ now - cache[RunKey].ts >= 3600))
        => /\ downloads' = <<feed>>
           /\ RunKey \in DOMAIN cache'
           /\ cache'[RunKey].ts = now
           /\ cache'[RunKey].value = df'
           /\ IF feed = <<>> THEN df' = None
                             ELSE df'.kind = "DataFrame" /\ df'.Close = feed
           /\ \A k \in DOMAIN cache : k # RunKey => (k \in DOMAIN cache' /\ cache'[k] = cache[k]) ]_vars

\* An Empty result was fetched and stored once the first TTL had passed.
C4_Witness ==
  /\ downloads = << <<>> >>
  /\ df = None
  /\ now = TTL
  /\ cache[<<ticker, start_date, end_date>>] = [value |-> None, ts |-> now]

\* C9: when the provider, or a cache hit, yields the Empty result for a
\* valid range the run ends at the no-data error: no metrics are computed
\* and no chart, metric card or table is rendered.
C9_NoDataIsTerminal ==
  [][ (/\ RunStep
       /\ ~RunInvalid
       /\ \/ EntryFresh(RunKey) /\ cache[RunKey].value = None
          \/ ~EntryFresh(RunKey) /\ feed = <<>>)
        => /\ df' = None
           /\ cards' = <<>>
           /\ table' = <<>>
           /\ page'[Len(page')] = "error: No data found. Try a different ticker."
           /\ Elements(page') \cap {"chart", "metrics", "dataframe", "expander"} = {} ]_vars

\* A run ended at the no-data error after an Empty download.
C9_Witness ==
  /\ downloads = << <<>> >>
  /\ df = None
  /\ page = NoDataPage
  /\ cards = <<>>

\* ------------------------------------------------ derived columns ------
Rows == IF df.kind = "DataFrame" THEN 1 .. Len(df.Close) ELSE {}
PeakSoFar(i) == CHOOSE m \in { df.Close[k] : k \in 1 .. i } : \A k \in 1 .. i : df.Close[k] <= m
Zero == <<0, 1>>

\* The product of (1 + DailyReturn[k]) over rows 1..i, the undefined first
\* row counted as a return of 0.
RECURSIVE Growth(_)
Growth(i) ==
  IF i <= 1 THEN Rat(1) ELSE Mul(Growth(i - 1), Add(Rat(1), df.DailyReturn[i]))

\* C5 as claimed: a one-point series gives length-1 columns with an
\* undefined first DailyReturn and four NaN summary scalars.
C5_AllFourNaN ==
  (df.kind = "DataFrame" /\ Len(df.Close) = 1)
    => /\ Len(df.DailyReturn) = 1
       /\ IsNaN(df.DailyReturn[1])
       /\ IsNaN(cards[1])
       /\ IsNaN(cards[2])
       /\ cards[3].nan
       /\ IsNaN(cards[4])

\* C5, amended: a one-point series renders the full page; its columns have
\* length 1 with DailyReturn and CumulativeReturn undefined and Drawdown 0;
\* TotalReturn, AvgDailyReturn and Volatility are NaN and MaxDrawdown is 0.
C5_OnePoint ==
  (df.kind = "DataFrame" /\ Len(df.Close) = 1)
    => /\ page = Header \o <<"spinner", "chart", "metrics", "dataframe", "expander">>
       /\ Len(df.DailyReturn) = 1
       /\ Len(df.CumulativeReturn) = 1
       /\ Len(df.MaxDrawdown) = 1
       /\ IsNaN(df.DailyReturn[1])
       /\ IsNaN(df.CumulativeReturn[1])
       /\ df.MaxDrawdown[1] = Zero
       /\ IsNaN(cards[1])
       /\ IsNaN(cards[2])
       /\ cards[3].nan
       /\ cards[4] = Zero

\* The page of a one-point series.
C5_Witness ==
  /\ df.kind = "DataFrame"
  /\ Len(df.Close) = 1
  /\ Len(cards) = 4
  /\ Len(table) = 1

\* C6 as claimed: at every row, the first included, CumulativeReturn is the
\* product of (1 + DailyReturn) up to that row minus 1, the undefined first
\* DailyReturn counted as 0, and TotalReturn is its last entry.
C6_FromFirstRow ==
  df.kind = "DataFrame"
    => /\ \A i \in Rows : df.CumulativeReturn[i] = Sub(Growth(i), Rat(1))
       /\ cards[1] = df.CumulativeReturn[Len(df.Close)]

\* C6, amended: CumulativeReturn is undefined in the first row; at every
\* later row it is the product of (1 + DailyReturn) over rows 1..i minus 1;
\* TotalReturn is its last entry (undefined for a one-point series), and
\* Close = [100, 110, 99] gives TotalReturn = -0.01.
C6_CumulativeProduct ==
  df.kind = "DataFrame"
    => /\ Len(df.CumulativeReturn) = Len(df.Close)
       /\ IsNaN(df.CumulativeReturn[1])
       /\ \A i \in Rows \ {1} : df.CumulativeReturn[i] = Sub(Growth(i), Rat(1))
       /\ cards[1] = df.CumulativeReturn[Len(df.Close)]
       /\ df.Close = <<100, 110, 99>> => cards[1] = <<-1, 100>>

\* The example series and its total return.
C6_Witness ==
  /\ df.kind = "DataFrame"
  /\ df.Close = <<100, 110, 99>>
  /\ cards[1] = <<-1, 100>>

\* C7: Drawdown[i] = Close[i] / max(Close[0..i]) - 1, so it is <= 0, it is 0
\* where Close[i] is the running maximum (the first row included), it depends
\* on rows 0..i only, and MaxDrawdown is the minimum of the column;
\* Close = [100, 120, 90] gives [0, 0, -0.25].
C7_Drawdown ==
  df.kind = "DataFrame"
    => /\ Len(df.MaxDrawdown) = Len(df.Close)
       /\ \A i \in Rows :
            LET d == df.MaxDrawdown[i]
            IN  /\ d[2] > 0
                /\ (d[1] + d[2]) * PeakSoFar(i) = d[2] * df.Close[i]
                /\ d[1] <= 0
                /\ df.Close[i] = PeakSoFar(i) => d = Zero
       /\ df.MaxDrawdown[1] = Zero
       /\ \E i \in Rows : cards[4] = df.MaxDrawdown[i]
       /\ \A i \in Rows : cards[4][1] * df.MaxDrawdown[i][2] <= df.MaxDrawdown[i][1] * cards[4][2]
       /\ df.Close = <<100, 120, 90>> => df.MaxDrawdown = <<Zero, Zero, <<-1, 4>>>>

\* The example series and its drawdown column.
C7_Witness ==
  /\ df.kind = "DataFrame"
  /\ df.Close = <<100, 120, 90>>
  /\ df.MaxDrawdown = <<Zero, Zero, <<-1, 4>>>>
  /\ cards[4] = <<-1, 4>>

\* C8: DailyReturn has the length and row alignment of the series, is
\* undefined in the first row, and is Close[i]/Close[i-1] - 1 in every
\* later row.
C8_DailyReturn ==
  df.kind = "DataFrame"
    => /\ Len(df.DailyReturn) = Len(df.Close)
       /\ IsNaN(df.DailyReturn[1])
       /\ \A i \in Rows \ {1} :
            LET r == df.DailyReturn[i]
            IN  r[2] > 0 /\ (r[1] + r[2]) * df.Close[i - 1] = r[2] * df.Close[i]

\* A series of three rows with a gain and then a loss.
C8_Witness ==
  /\ df.kind = "DataFrame"
  /\ Len(df.Close) = 3
  /\ df.DailyReturn[2][1] > 0
  /\ df.DailyReturn[3][1] < 0

\* C10 as claimed: the DailyReturn cells of the table carry one colour for
\* every defined value >= 0 (0 included), the other colour for every value
\* < 0, and no colour for an undefined value.
C10_NonNegativeVsNegative ==
  \A i \in DOMAIN table : \A j \in DOMAIN table :
    LET a == table[i].DailyReturn
        b == table[j].DailyReturn
    IN  /\ IsNaN(a) <=> table[i].style = ""
        /\ (~IsNaN(a) /\ ~IsNaN(b))
             => ((table[i].style = table[j].style) <=> ((a[1] >= 0) <=> (b[1] >= 0)))

\* C10, amended: a DailyReturn cell is green when the value is > 0, red when
\* it is 0 or negative, and has no colour when the value is undefined.
C10_PositiveVsRest ==
  \A i \in DOMAIN table :
    LET a == table[i].DailyReturn
    IN  /\ a = df.DailyReturn[i]
        /\ IsNaN(a) => table[i].style = ""
        /\ (~IsNaN(a) /\ a[1] > 0) => table[i].style = "color: green"
        /\ (~IsNaN(a) /\ a[1] <= 0) => table[i].style = "color: red"

\* A table with an unchanged day, a gain and the undefined first row.
C10_Witness ==
  /\ Len(table) = 3
  /\ table[1].style = ""
  /\ table[2].DailyReturn = Zero
  /\ table[2].style = "color: red"
  /\ table[3].style = "color: green"

====
